---------------------------- MODULE Spec2Model ----------------------------
(***************************************************************************)
(* The SVG 1.1 "full" type checker of svgwrite                             *)
(* (svgwrite/data/full11typechecker.py, Python 2).                         *)
(*                                                                         *)
(* A Python string is a sequence of one-character strings, so that strip, *)
(* split, slicing and the regular expressions are computed character by   *)
(* character.  A Python value is a record with a tag:                      *)
(*   None, int, bool (a subclass of int), float, str, tuple.               *)
(* A call yields an outcome: "true", "false", or "raise" when an           *)
(* exception leaves check().                                               *)
(***************************************************************************)
EXTENDS Integers, Sequences, FiniteSets, TLC

(***************************************************************************)
(* Bounds of the model.                                                    *)
(***************************************************************************)
\* longest string enumerated exhaustively over Alphabet
MaxLen == 3
\* longest tuple enumerated exhaustively over Elems
MaxSeqLen == 3
\* number of threads calling check() concurrently
NThreads == 2

(***************************************************************************)
(* Python values.                                                          *)
(***************************************************************************)
None == [tag |-> "None"]
PyInt(n) == [tag |-> "int", n |-> n]
PyBool(b) == [tag |-> "bool", b |-> b]
\* a finite float is kept in tenths (42 is 4.2); kind is "fin", "nan" or "inf"
\* (for "inf" the sign of tenths is the sign of the infinity)
PyFloat(kind, tenths) == [tag |-> "float", kind |-> kind, tenths |-> tenths]
PyStr(s) == [tag |-> "str", s |-> s]
PyTuple(items) == [tag |-> "tuple", items |-> items]

\* isinstance(value, basestring)
IsBaseString(value) == value.tag = "str"
\* isinstance(value, (int, float)); bool is a subclass of int
IsIntOrFloat(value) == value.tag \in {"int", "bool", "float"}

Out(b) == IF b THEN "true" ELSE "false"

(***************************************************************************)
(* Characters and the string methods the checker uses.                     *)
(***************************************************************************)
Digits == {"0", "1", "2", "3", "4", "5", "6", "7", "8", "9"}
DigitChars == <<"0", "1", "2", "3", "4", "5", "6", "7", "8", "9">>
\* the characters str.strip(), float() and int() treat as white space
StripChars == {" ", "\t", "\n", "\r", "\f"}
INVALID_NAME_CHARS == {" ", "\t", "\r", "\n", ",", "(", ")"}

AllIn(s, chars) == \A i \in 1..Len(s) : s[i] \in chars
From(s, i) == SubSeq(s, i, Len(s))
StartsWith(s, p) == Len(s) >= Len(p) /\ SubSeq(s, 1, Len(p)) = p
\* index of the first character of s that satisfies the test, Len(s)+1 if none
FirstIn(s, chars) ==
    IF \E i \in 1..Len(s) : s[i] \in chars
    THEN CHOOSE i \in 1..Len(s) : s[i] \in chars /\ \A j \in 1..(i-1) : s[j] \notin chars
    ELSE Len(s) + 1
FirstNotIn(s, chars) ==
    IF \E i \in 1..Len(s) : s[i] \notin chars
    THEN CHOOSE i \in 1..Len(s) : s[i] \notin chars /\ \A j \in 1..(i-1) : s[j] \in chars
    ELSE Len(s) + 1
LastNotIn(s, chars) ==
    IF \E i \in 1..Len(s) : s[i] \notin chars
    THEN CHOOSE i \in 1..Len(s) : s[i] \notin chars /\ \A j \in (i+1)..Len(s) : s[j] \in chars
    ELSE 0
SetMax(S) == CHOOSE x \in S : \A y \in S : y <= x

\* value.strip()
strip(s) == SubSeq(s, FirstNotIn(s, StripChars), LastNotIn(s, StripChars))

\* value.split(sep) for a one-character sep: empty fields are kept
RECURSIVE str_split(_, _)
str_split(s, sep) ==
    LET k == FirstIn(s, {sep})
    IN  IF k > Len(s) THEN <<s>>
        ELSE <<SubSeq(s, 1, k - 1)>> \o str_split(From(s, k + 1), sep)

\* funcname.replace(old, new) for one-character old and new
replace(s, old, new) == [i \in 1..Len(s) |-> IF s[i] = old THEN new ELSE s[i]]

Lower(c) ==
    CASE c = "I" -> "i" [] c = "N" -> "n" [] c = "F" -> "f" [] c = "A" -> "a"
      [] c = "T" -> "t" [] c = "Y" -> "y" [] c = "E" -> "e" [] OTHER -> c
LowerStr(s) == [i \in 1..Len(s) |-> Lower(s[i])]

(***************************************************************************)
(* float(), int() and str() of Python 2.                                   *)
(***************************************************************************)
IsDigits(s) == Len(s) > 0 /\ AllIn(s, Digits)
Unsigned(s) == IF Len(s) > 0 /\ s[1] \in {"+", "-"} THEN Tail(s) ELSE s
\* digits with at most one point and at least one digit: "1", "1.", ".5", "1.5"
IsPointFloat(s) ==
    \/ IsDigits(s)
    \/ \E i \in 1..Len(s) :
          /\ s[i] = "."
          /\ AllIn(SubSeq(s, 1, i - 1), Digits)
          /\ AllIn(From(s, i + 1), Digits)
          /\ Len(s) > 1
IsDecimalFloat(s) ==
    \/ IsPointFloat(s)
    \/ \E i \in 1..Len(s) :
          /\ s[i] \in {"e", "E"}
          /\ IsPointFloat(SubSeq(s, 1, i - 1))
          /\ IsDigits(Unsigned(From(s, i + 1)))
\* float(s) of a string succeeds
float_str_ok(s) ==
    LET u == Unsigned(strip(s))
    IN  \/ IsDecimalFloat(u)
        \/ LowerStr(u) \in {<<"i", "n", "f">>, <<"i", "n", "f", "i", "n", "i", "t", "y">>, <<"n", "a", "n">>}
\* int(s) of a string succeeds (base 10)
int_str_ok(s) == IsDigits(Unsigned(strip(s)))

\* float(value) returns instead of raising TypeError or ValueError
float_ok(value) ==
    CASE value.tag \in {"int", "bool", "float"} -> TRUE
      [] value.tag = "str" -> float_str_ok(value.s)
      [] OTHER -> FALSE
\* int(value) returns: a finite float is truncated, nan and inf raise
int_ok(value) ==
    CASE value.tag \in {"int", "bool"} -> TRUE
      [] value.tag = "float" -> value.kind = "fin"
      [] value.tag = "str" -> int_str_ok(value.s)
      [] OTHER -> FALSE

RECURSIVE NatStr(_)
NatStr(n) == IF n < 10 THEN <<DigitChars[n + 1]>>
             ELSE NatStr(n \div 10) \o <<DigitChars[(n % 10) + 1]>>
IntStr(n) == IF n < 0 THEN <<"-">> \o NatStr(-n) ELSE NatStr(n)
Abs(n) == IF n < 0 THEN -n ELSE n
FloatStr(kind, tenths) ==
    CASE kind = "nan" -> <<"n", "a", "n">>
      [] kind = "inf" -> IF tenths < 0 THEN <<"-", "i", "n", "f">> ELSE <<"i", "n", "f">>
      [] OTHER -> (IF tenths < 0 THEN <<"-">> ELSE <<>>)
                  \o NatStr(Abs(tenths) \div 10) \o <<".">>
                  \o <<DigitChars[(Abs(tenths) % 10) + 1]>>

\* repr(value) and str(value); they differ on strings only
RECURSIVE py_repr(_)
RECURSIVE JoinRepr(_)
JoinRepr(items) ==
    IF Len(items) = 0 THEN <<>>
    ELSE IF Len(items) = 1 THEN py_repr(items[1])
    ELSE py_repr(items[1]) \o <<",", " ">> \o JoinRepr(Tail(items))
py_repr(value) ==
    CASE value.tag = "None" -> <<"N", "o", "n", "e">>
      [] value.tag = "int" -> IntStr(value.n)
      [] value.tag = "bool" -> IF value.b THEN <<"T", "r", "u", "e">> ELSE <<"F", "a", "l", "s", "e">>
      [] value.tag = "float" -> FloatStr(value.kind, value.tenths)
      [] value.tag = "str" -> <<"'">> \o value.s \o <<"'">>
      [] OTHER -> <<"(">> \o JoinRepr(value.items)
                  \o (IF Len(value.items) = 1 THEN <<",">> ELSE <<>>) \o <<")">>
py_str(value) == IF value.tag = "str" THEN value.s ELSE py_repr(value)

(***************************************************************************)
(* Regular expressions.  A match is the tuple of its groups, the empty     *)
(* tuple when the pattern does not match.  "." matches no newline, ".*"    *)
(* is greedy, and match() anchors at the start of the string only.         *)
(***************************************************************************)
\* the characters of s that ".*" can cover from position i on: up to the first newline
DotEnd(s, i) == (i - 1) + (FirstIn(From(s, i), {"\n"}) - 1)

\* re.compile("url\((.*)\)").match(s)
FUNCIRI_PATTERN(s) ==
    LET closing == {j \in 5..DotEnd(s, 5) : s[j] = ")"}
    IN  IF StartsWith(s, <<"u", "r", "l", "(">>) /\ closing # {}
        THEN <<SubSeq(s, 5, SetMax(closing) - 1)>>
        ELSE <<>>

\* re.compile("rect\((.*),(.*),(.*),(.*)\)").match(s): the greedy groups end at the
\* last ")" and at the last three commas before it
SHAPE_PATTERN(s) ==
    LET closing == {j \in 6..DotEnd(s, 6) : s[j] = ")"}
        p == SetMax(closing)
        commas == {j \in 6..(p - 1) : s[j] = ","}
        c3 == SetMax(commas)
        c2 == SetMax(commas \ {c3})
        c1 == SetMax(commas \ {c3, c2})
    IN  IF StartsWith(s, <<"r", "e", "c", "t", "(">>) /\ closing # {} /\ Cardinality(commas) >= 3
        THEN << SubSeq(s, 6, c1 - 1), SubSeq(s, c1 + 1, c2 - 1),
                SubSeq(s, c2 + 1, c3 - 1), SubSeq(s, c3 + 1, p - 1) >>
        ELSE <<>>

\* re.split(' *,? *', s) of Python 2: a match that is empty splits nothing, so a
\* separator starts at the first blank or comma and takes blanks, one comma, blanks
RECURSIVE re_split(_)
re_split(s) ==
    LET i == FirstIn(s, {" ", ","})
        a == (i - 1) + FirstNotIn(From(s, i), {" "})
        b == IF a <= Len(s) /\ s[a] = "," THEN a + 1 ELSE a
        e == (b - 1) + FirstNotIn(From(s, b), {" "})
    IN  IF i > Len(s) THEN <<s>>
        ELSE <<SubSeq(s, 1, i - 1)>> \o re_split(From(s, e))

(***************************************************************************)
(* The pattern module (pattern.length, pattern.angle, ...) is imported by  *)
(* full11typechecker.py; its regular expressions follow the               *)
(* specification's table of primitive predicates.                          *)
(***************************************************************************)
\* <number> of the SVG grammar: sign? digit* "."? digit+ (("e"|"E") sign? digit+)?
IsSvgMantissa(s) ==
    \/ IsDigits(s)
    \/ \E i \in 1..Len(s) :
          /\ s[i] = "."
          /\ AllIn(SubSeq(s, 1, i - 1), Digits)
          /\ IsDigits(From(s, i + 1))
pattern_number(s) ==
    LET u == Unsigned(s)
    IN  \/ IsSvgMantissa(u)
        \/ \E i \in 1..Len(u) :
              /\ u[i] \in {"e", "E"}
              /\ IsSvgMantissa(SubSeq(u, 1, i - 1))
              /\ IsDigits(Unsigned(From(u, i + 1)))
\* <number> followed by one of the units, or by nothing when optional
pattern_units(s, units, optional) ==
    \/ optional /\ pattern_number(s)
    \/ \E u \in units :
          /\ Len(s) > Len(u)
          /\ From(s, Len(s) - Len(u) + 1) = u
          /\ pattern_number(SubSeq(s, 1, Len(s) - Len(u)))
\* pattern.length.match(s).groups(): the number is the longest numeric prefix and
\* the unit is whatever follows it; no match without a numeric prefix
pattern_length(s) ==
    LET ks == {k \in 1..Len(s) : pattern_number(SubSeq(s, 1, k))}
    IN  IF ks = {} THEN <<>>
        ELSE <<SubSeq(s, 1, SetMax(ks)), From(s, SetMax(ks) + 1)>>
pattern_angle(s) == pattern_units(s, {<<"d", "e", "g">>, <<"g", "r", "a", "d">>, <<"r", "a", "d">>}, TRUE)
pattern_frequency(s) == pattern_units(s, {<<"H", "z">>, <<"k", "H", "z">>}, TRUE)
pattern_time(s) == pattern_units(s, {<<"m", "s">>, <<"s">>}, TRUE)
pattern_percentage(s) == pattern_units(s, {<<"%">>}, FALSE)

(***************************************************************************)
(* The predicates of Full11TypeChecker.                                    *)
(***************************************************************************)
is_anything(value) == TRUE

is_color(value) == TRUE

is_icccolor(value) == TRUE

is_semicolon_list(value) == TRUE

is_paint(value) == TRUE

is_transform_list(value) == TRUE

is_XML_Name(value) == TRUE

is_number(value) == float_ok(value)

is_integer(value) == int_ok(value)

is_angle(value) ==
    IF is_number(value) THEN TRUE
    ELSE IF IsBaseString(value) THEN pattern_angle(strip(value.s))
    ELSE FALSE

is_frequency(value) ==
    IF is_number(value) THEN TRUE
    ELSE IF IsBaseString(value) THEN pattern_frequency(strip(value.s))
    ELSE FALSE

is_percentage(value) ==
    IF is_number(value) THEN TRUE
    ELSE IF IsBaseString(value) THEN pattern_percentage(strip(value.s))
    ELSE FALSE

is_time(value) ==
    IF is_number(value) THEN TRUE
    ELSE IF IsBaseString(value) THEN pattern_time(strip(value.s))
    ELSE FALSE

is_length_strings_only(value) ==
    IF IsBaseString(value)
    THEN LET result == pattern_length(strip(value.s))
         IN  IF result # <<>> THEN is_number(PyStr(result[1])) ELSE FALSE
    ELSE FALSE
is_length(value) ==
    IF value.tag = "None" THEN FALSE
    ELSE IF IsIntOrFloat(value) THEN is_number(value)
    ELSE IF IsBaseString(value)
         THEN LET result == pattern_length(strip(value.s))
              IN  IF result # <<>> THEN is_number(PyStr(result[1])) ELSE FALSE
    ELSE FALSE

is_name(value) ==
    LET s == py_str(value)
    IN  ~ \E i \in 1..Len(s) : s[i] \in INVALID_NAME_CHARS

\* "raise" for a value without strip(): AttributeError on None, numbers and tuples
is_FuncIRI(value) ==
    IF ~ IsBaseString(value) THEN "raise"
    ELSE LET res == FUNCIRI_PATTERN(strip(value.s))
         IN  IF res # <<>> THEN Out(is_anything(PyStr(res[1]))) ELSE "false"

\* "raise" for a value without strip(), as in is_FuncIRI
is_shape(value) ==
    IF ~ IsBaseString(value) THEN "raise"
    ELSE LET res == SHAPE_PATTERN(strip(value.s))
         IN  IF res # <<>>
             THEN Out(\A i \in 1..Len(res) : is_length(PyStr(res[i])))
             ELSE "false"

is_number_optional_number_up_to_three(value) ==
    IF IsBaseString(value)
    THEN LET values == re_split(strip(value.s))
         IN  IF 0 < Len(values) /\ Len(values) <= 3
             THEN \A i \in 1..Len(values) : is_number(PyStr(values[i]))
             ELSE FALSE
    ELSE IF value.tag = "tuple"
         THEN IF Len(value.items) = 2
              THEN is_number(value.items[1]) /\ is_number(value.items[2])
              ELSE FALSE
    ELSE is_number(value)
is_number_optional_number(value) ==
    IF IsBaseString(value)
    THEN LET values == re_split(strip(value.s))
         IN  IF 0 < Len(values) /\ Len(values) < 3
             THEN \A i \in 1..Len(values) : is_number(PyStr(values[i]))
             ELSE FALSE
    ELSE IF value.tag = "tuple"
         THEN IF Len(value.items) = 2
              THEN is_number(value.items[1]) /\ is_number(value.items[2])
              ELSE FALSE
    ELSE is_number(value)

(***************************************************************************)
(* The predicate table: the is_* attributes of the checker object, each    *)
(* bound to a method.  is_string and is_IRI are bound to is_anything,      *)
(* is_coordinate to is_length.                                             *)
(***************************************************************************)
Attributes ==
    { <<<<"i", "s", "_", "a", "n", "g", "l", "e">>, "is_angle">>,
      <<<<"i", "s", "_", "a", "n", "y", "t", "h", "i", "n", "g">>, "is_anything">>,
      <<<<"i", "s", "_", "s", "t", "r", "i", "n", "g">>, "is_anything">>,
      <<<<"i", "s", "_", "c", "o", "l", "o", "r">>, "is_color">>,
      <<<<"i", "s", "_", "f", "r", "e", "q", "u", "e", "n", "c", "y">>, "is_frequency">>,
      <<<<"i", "s", "_", "F", "u", "n", "c", "I", "R", "I">>, "is_FuncIRI">>,
      <<<<"i", "s", "_", "i", "c", "c", "c", "o", "l", "o", "r">>, "is_icccolor">>,
      <<<<"i", "s", "_", "i", "n", "t", "e", "g", "e", "r">>, "is_integer">>,
      <<<<"i", "s", "_", "I", "R", "I">>, "is_anything">>,
      <<<<"i", "s", "_", "l", "e", "n", "g", "t", "h">>, "is_length">>,
      <<<<"i", "s", "_", "c", "o", "o", "r", "d", "i", "n", "a", "t", "e">>, "is_length">>,
      <<<<"i", "s", "_", "l", "i", "s", "t", "_", "o", "f", "_", "T">>, "is_list_of_T">>,
      <<<<"i", "s", "_", "s", "e", "m", "i", "c", "o", "l", "o", "n", "_", "l", "i", "s", "t">>, "is_semicolon_list">>,
      <<<<"i", "s", "_", "n", "a", "m", "e">>, "is_name">>,
      <<<<"i", "s", "_", "n", "u", "m", "b", "e", "r">>, "is_number">>,
      <<<<"i", "s", "_", "n", "u", "m", "b", "e", "r", "_", "o", "p", "t", "i", "o", "n", "a", "l", "_", "n", "u", "m", "b", "e", "r">>, "is_number_optional_number">>,
      <<<<"i", "s", "_", "p", "a", "i", "n", "t">>, "is_paint">>,
      <<<<"i", "s", "_", "p", "e", "r", "c", "e", "n", "t", "a", "g", "e">>, "is_percentage">>,
      <<<<"i", "s", "_", "t", "i", "m", "e">>, "is_time">>,
      <<<<"i", "s", "_", "t", "r", "a", "n", "s", "f", "o", "r", "m", "_", "l", "i", "s", "t">>, "is_transform_list">>,
      <<<<"i", "s", "_", "X", "M", "L", "_", "N", "a", "m", "e">>, "is_XML_Name">>,
      <<<<"i", "s", "_", "s", "h", "a", "p", "e">>, "is_shape">> }
PredicateTable ==
    [a \in {p[1] : p \in Attributes} |-> (CHOOSE p \in Attributes : p[1] = a)[2]]

\* getattr(self, 'is_' + funcname.replace('-', '_'), self.is_anything)
get_func_by_name_default_number(tbl, funcname) ==
    LET attr == <<"i", "s", "_">> \o replace(funcname, "-", "_")
    IN  IF attr \in DOMAIN tbl THEN tbl[attr] ELSE tbl[<<"i", "s", "_", "n", "u", "m", "b", "e", "r">>]
get_func_by_name(tbl, funcname) ==
    LET attr == <<"i", "s", "_">> \o replace(funcname, "-", "_")
    IN  IF attr \in DOMAIN tbl THEN tbl[attr] ELSE tbl[<<"i", "s", "_", "a", "n", "y", "t", "h", "i", "n", "g">>]

\* iterflatlist over the lists that split(',') returns: one level to flatten,
\* the strings in them are not iterated
RECURSIVE iterflatlist(_)
iterflatlist(values) ==
    IF values = <<>> THEN <<>>
    ELSE Head(values) \o iterflatlist(Tail(values))

\* split() local to is_list_of_T, for a value that can be iterated
split(value) ==
    IF IsIntOrFloat(value) THEN <<value>>
    ELSE IF IsBaseString(value)
         THEN LET byBlank == str_split(value.s, " ")
                  flat == iterflatlist([i \in 1..Len(byBlank) |-> str_split(byBlank[i], ",")])
              IN  [i \in 1..Len(flat) |-> PyStr(flat[i])]
    ELSE value.items
\* "for v in split(value)" raises TypeError when split() returns None
Iterable(value) == value.tag # "None"

\* the outcome of the loop of is_list_of_T: "true" when every element passes, else
\* the outcome of the first element that does not
FirstFailure(outs) ==
    LET bad == {i \in 1..Len(outs) : outs[i] # "true"}
    IN  IF bad = {} THEN "true" ELSE outs[CHOOSE i \in bad : \A j \in bad : i <= j]

RECURSIVE call(_, _, _)
RECURSIVE is_list_of_T(_, _, _)
\* func(value) for a bound method of the table
call(tbl, func, value) ==
    CASE func = "is_anything" -> Out(is_anything(value))
      [] func = "is_color" -> Out(is_color(value))
      [] func = "is_icccolor" -> Out(is_icccolor(value))
      [] func = "is_semicolon_list" -> Out(is_semicolon_list(value))
      [] func = "is_paint" -> Out(is_paint(value))
      [] func = "is_transform_list" -> Out(is_transform_list(value))
      [] func = "is_XML_Name" -> Out(is_XML_Name(value))
      [] func = "is_number" -> Out(is_number(value))
      [] func = "is_integer" -> Out(is_integer(value))
      [] func = "is_angle" -> Out(is_angle(value))
      [] func = "is_frequency" -> Out(is_frequency(value))
      [] func = "is_percentage" -> Out(is_percentage(value))
      [] func = "is_time" -> Out(is_time(value))
      [] func = "is_length" -> Out(is_length(value))
      [] func = "is_name" -> Out(is_name(value))
      [] func = "is_number_optional_number" -> Out(is_number_optional_number(value))
      [] func = "is_FuncIRI" -> is_FuncIRI(value)
      [] func = "is_shape" -> is_shape(value)
      [] func = "is_list_of_T" -> is_list_of_T(tbl, value, <<"s", "t", "r", "i", "n", "g">>)
      [] OTHER -> "raise"    \* not a callable: TypeError

is_list_of_T(tbl, value, t) ==
    LET checker == get_func_by_name(tbl, t)
    IN  IF ~ Iterable(value) THEN "raise"
        ELSE LET elems == split(value)
             IN  FirstFailure([i \in 1..Len(elems) |-> call(tbl, checker, elems[i])])

ListPrefix == <<"l", "i", "s", "t", "-", "o", "f", "-">>

check(tbl, typename, value) ==
    IF StartsWith(typename, ListPrefix)
    THEN is_list_of_T(tbl, value, From(typename, 9))
    ELSE call(tbl, get_func_by_name(tbl, typename), value)

(***************************************************************************)
(* The inputs of check(): grammar-type names and values.                   *)
(***************************************************************************)
tn_number == <<"n", "u", "m", "b", "e", "r">>
tn_integer == <<"i", "n", "t", "e", "g", "e", "r">>
tn_length == <<"l", "e", "n", "g", "t", "h">>
tn_coordinate == <<"c", "o", "o", "r", "d", "i", "n", "a", "t", "e">>
tn_angle == <<"a", "n", "g", "l", "e">>
tn_frequency == <<"f", "r", "e", "q", "u", "e", "n", "c", "y">>
tn_time == <<"t", "i", "m", "e">>
tn_percentage == <<"p", "e", "r", "c", "e", "n", "t", "a", "g", "e">>
tn_number_optional_number == <<"n", "u", "m", "b", "e", "r", "-", "o", "p", "t", "i", "o", "n", "a", "l", "-", "n", "u", "m", "b", "e", "r">>
tn_name == <<"n", "a", "m", "e">>
tn_FuncIRI == <<"F", "u", "n", "c", "I", "R", "I">>
tn_shape == <<"s", "h", "a", "p", "e">>
tn_list_of_number == <<"l", "i", "s", "t", "-", "o", "f", "-", "n", "u", "m", "b", "e", "r">>
tn_list_of_string == <<"l", "i", "s", "t", "-", "o", "f", "-", "s", "t", "r", "i", "n", "g">>

\* the grammar types whose predicate is written out
ModelledTypes ==
    { tn_number, tn_integer, tn_length, tn_coordinate, tn_angle, tn_frequency, tn_time,
      tn_percentage, tn_number_optional_number, tn_name, tn_FuncIRI, tn_shape }
\* the grammar types accepted as opaque text
UnmodelledTypes ==
    { <<"c", "o", "l", "o", "r">>, <<"p", "a", "i", "n", "t">>, <<"i", "c", "c", "c", "o", "l", "o", "r">>, <<"a", "n", "y", "t", "h", "i", "n", "g">>, <<"s", "t", "r", "i", "n", "g">>, <<"I", "R", "I">>,
      <<"t", "r", "a", "n", "s", "f", "o", "r", "m", "-", "l", "i", "s", "t">>, <<"X", "M", "L", "-", "N", "a", "m", "e">>, <<"s", "e", "m", "i", "c", "o", "l", "o", "n", "-", "l", "i", "s", "t">> }
\* names no is_* attribute answers to
UnknownTypes == { <<"f", "o", "o">>, <<"n", "o", "t", "-", "a", "-", "t", "y", "p", "e">> }
\* the element types of the list types; the empty name is the T of "list-of-"
ElementTypes ==
    { tn_number, <<"i", "n", "t", "e", "g", "e", "r">>, <<"l", "e", "n", "g", "t", "h">>, <<"s", "t", "r", "i", "n", "g">>, <<"f", "o", "o">>, <<"F", "u", "n", "c", "I", "R", "I">>, <<>> }
ListTypes == { ListPrefix \o t : t \in ElementTypes }
\* is_list_of_T is an attribute as well, reached by this name with t = 'string'
AttributeNames == { <<"l", "i", "s", "t", "_", "o", "f", "_", "T">> }
TypeNames ==
    ModelledTypes \cup UnmodelledTypes \cup UnknownTypes \cup ListTypes \cup AttributeNames

Alphabet == {"1", ".", ",", " ", "\t", "e"}
ShortStrings == UNION { [1..n -> Alphabet] : n \in 0..MaxLen }
s_rect4 == <<"r", "e", "c", "t", "(", "5", "p", "x", ",", " ", "1", "0", "p", "x", ",", " ", "1", "0", "p", "x", ",", " ", "5", "p", "x", ")">>
s_rect3 == <<"r", "e", "c", "t", "(", "5", "p", "x", ",", "1", "0", "p", "x", ",", "1", "0", "p", "x", ")">>
s_rect4x == <<"r", "e", "c", "t", "(", "1", ",", "2", ",", "3", ",", "4", ")", "x">>
s_1_2__3 == <<"1", ",", "2", ",", " ", "3">>
s_1_a_3 == <<"1", ",", "a", ",", "3">>
s_10px == <<"1", "0", "p", "x">>
s_10xyz == <<"1", "0", "x", "y", "z">>
s_5_10 == <<"5", ",", "1", "0">>
s_5_10_15 == <<"5", ",", "1", "0", ",", "1", "5">>
s_42 == <<"4", "2">>
s_4_2 == <<"4", ".", "2">>
s_True == <<"T", "r", "u", "e">>
LongStrings ==
    { s_rect4, s_rect3, s_rect4x, <<"r", "e", "c", "t", "(", "1", ",", "2", ",", "3", ",", "4", ")">>, <<" ", "r", "e", "c", "t", "(", "1", ",", "2", ",", "3", ",", "4", ")", " ">>,
      <<"r", "e", "c", "t", "(", "1", ",", "2", ",", "3", ",", "4", ",", "5", ")">>, <<"r", "e", "c", "t", "(", "1", ",", "2", ",", "x", ",", "4", ")">>, <<"r", "e", "c", "t", "(", "1", ",", "2", ",", "3", ",", "4">>, <<"x", "r", "e", "c", "t", "(", "1", ",", "2", ",", "3", ",", "4", ")">>,
      <<"u", "r", "l", "(", "#", "a", ")">>, <<"u", "r", "l", "(", "#", "a">>, <<"v", "a", "l", "i", "d", "-", "n", "a", "m", "e">>, <<"i", "n", "v", "a", "l", "i", "d", " ", "n", "a", "m", "e">>, <<"a", "(", "b", ")">>,
      s_10px, s_10xyz, <<"5", "%">>, <<"1", "0", "m", "s">>, <<"1", "0", "d", "e", "g">>, <<"1", "0", "k", "H", "z">>, <<"1", "0", "m">>, <<"p", "x">>,
      s_42, s_4_2, <<"3", ".", "1", "4">>, <<"a", "b", "c">>, <<"-", "5">>, <<"+", ".", "5", "e", "-", "1">>,
      <<"1", " ", "2", " ", "3">>, <<"1", ",", "2", ",", "3">>, s_1_2__3, s_1_a_3, <<"1", " ", " ", "2">>,
      <<"5">>, s_5_10, s_5_10_15, <<"5", " ", "1", "0">>, <<"5", ",", " ", "1", "0">>, <<"5", " ", ",", " ", "1", "0">>, <<"5", ",", ",", "1", "0">>, <<"5", " ", "1", "0", " ", "1", "5">>,
      s_True, <<"F", "a", "l", "s", "e">>, <<"N", "o", "n", "e">>, <<"n", "a", "n">>, <<"i", "n", "f">>, <<"-", "i", "n", "f">>, <<"5", ".", "0">> }
StrValues == { PyStr(s) : s \in ShortStrings \cup LongStrings }

IntValues == { PyInt(n) : n \in {-1, 0, 5, 42} }
BoolValues == { PyBool(b) : b \in BOOLEAN }
FloatValues ==
    { PyFloat("fin", 42), PyFloat("fin", 50), PyFloat("fin", -5),
      PyFloat("nan", 0), PyFloat("inf", 1), PyFloat("inf", -1) }
Scalars == {None} \cup IntValues \cup BoolValues \cup FloatValues
Elems == { PyInt(5), PyFloat("fin", 42), PyStr(<<"1">>), PyStr(<<"a">>), None }
TupleValues ==
    { PyTuple(q) : q \in UNION { [1..n -> Elems] : n \in 0..MaxSeqLen } }
    \cup { PyTuple(<<PyInt(5), PyTuple(<<PyInt(5), PyInt(5)>>)>>),
           PyTuple(<<PyTuple(<<>>)>>) }
Values == Scalars \cup StrValues \cup TupleValues

\* the inputs of the concurrent calls
ConcTypeNames == { tn_list_of_number, tn_list_of_string, tn_number, <<"f", "o", "o">> }
ConcValues == { PyStr(<<"1", ",", "a">>), PyStr(<<"1", " ", "2">>), PyInt(5), None, PyTuple(<<PyInt(5), None>>) }

(***************************************************************************)
(* The state: the predicate table shared by every call, and for each       *)
(* thread the call it is in.                                               *)
(***************************************************************************)
VARIABLES
    table,      \* attribute name -> bound method, shared by all threads
    pc,         \* thread -> "idle", "check", "loop" or "done"
    typename,   \* thread -> the typename argument of its call
    value,      \* thread -> the value argument of its call
    checker,    \* slot -> the element checker is_list_of_T looked up
    pending,    \* thread -> the elements is_list_of_T has still to check
    result      \* thread -> "none", or the outcome of its call

vars == <<table, pc, typename, value, checker, pending, result>>

Threads == 1..NThreads
Main == CHOOSE th \in Threads : \A other \in Threads : th <= other

\* checker is a local variable of is_list_of_T: each call has its own
SharedSlot(th) == Main
CheckerSlot(th) == th

Init ==
    /\ table = PredicateTable
    /\ pc = [th \in Threads |-> "idle"]
    /\ typename = [th \in Threads |-> <<>>]
    /\ value = [th \in Threads |-> None]
    /\ checker = [th \in Threads |-> "none"]
    /\ pending = [th \in Threads |-> <<>>]
    /\ result = [th \in Threads |-> "none"]

\* a whole call check(t, v), start to end
Check(th) ==
    /\ pc[th] = "idle"
    /\ \E t \in TypeNames, v \in Values :
          /\ typename' = [typename EXCEPT ![th] = t]
          /\ value' = [value EXCEPT ![th] = v]
          /\ result' = [result EXCEPT ![th] = check(table, t, v)]
    /\ pc' = [pc EXCEPT ![th] = "done"]
    /\ UNCHANGED <<table, checker, pending>>

\* the caller takes the outcome; the thread is free for its next call
Return(th) ==
    /\ pc[th] = "done"
    /\ pc' = [pc EXCEPT ![th] = "idle"]
    /\ typename' = [typename EXCEPT ![th] = <<>>]
    /\ value' = [value EXCEPT ![th] = None]
    /\ result' = [result EXCEPT ![th] = "none"]
    /\ checker' = [checker EXCEPT ![CheckerSlot(th)] = "none"]
    /\ pending' = [pending EXCEPT ![th] = <<>>]
    /\ UNCHANGED table

Next ==
    \/ Check(Main)
    \/ Return(Main)

Spec == Init /\ [][Next]_vars

(***************************************************************************)
(* The same call in the steps at which another thread can run in between.  *)
(***************************************************************************)
\* a thread calls check(t, v)
Enter(th) ==
    /\ pc[th] = "idle"
    /\ \E t \in ConcTypeNames, v \in ConcValues :
          /\ typename' = [typename EXCEPT ![th] = t]
          /\ value' = [value EXCEPT ![th] = v]
    /\ pc' = [pc EXCEPT ![th] = "check"]
    /\ UNCHANGED <<table, checker, pending, result>>

\* check() of a name without the list-of- prefix: look the predicate up, apply it
PlainCall(th) ==
    /\ pc[th] = "check"
    /\ ~ StartsWith(typename[th], ListPrefix)
    /\ result' = [result EXCEPT ![th] =
                     call(table, get_func_by_name(table, typename[th]), value[th])]
    /\ pc' = [pc EXCEPT ![th] = "done"]
    /\ UNCHANGED <<table, typename, value, checker, pending>>

\* is_list_of_T up to the loop: look the element checker up, start iterating
ListLookup(th) ==
    /\ pc[th] = "check"
    /\ StartsWith(typename[th], ListPrefix)
    /\ checker' = [checker EXCEPT ![CheckerSlot(th)] =
                      get_func_by_name(table, From(typename[th], 9))]
    /\ IF Iterable(value[th])
       THEN /\ pending' = [pending EXCEPT ![th] = split(value[th])]
            /\ pc' = [pc EXCEPT ![th] = "loop"]
            /\ UNCHANGED result
       ELSE /\ result' = [result EXCEPT ![th] = "raise"]
            /\ pc' = [pc EXCEPT ![th] = "done"]
            /\ UNCHANGED pending
    /\ UNCHANGED <<table, typename, value>>

\* one turn of the loop: the next element passes, or the call ends with its outcome
LoopStep(th) ==
    /\ pc[th] = "loop"
    /\ pending[th] # <<>>
    /\ LET out == call(table, checker[CheckerSlot(th)], Head(pending[th]))
       IN  IF out = "true"
           THEN /\ pending' = [pending EXCEPT ![th] = Tail(pending[th])]
                /\ UNCHANGED <<pc, result>>
           ELSE /\ result' = [result EXCEPT ![th] = out]
                /\ pc' = [pc EXCEPT ![th] = "done"]
                /\ UNCHANGED pending
    /\ UNCHANGED <<table, typename, value, checker>>

\* the loop ran out of elements: return True
LoopEnd(th) ==
    /\ pc[th] = "loop"
    /\ pending[th] = <<>>
    /\ result' = [result EXCEPT ![th] = "true"]
    /\ pc' = [pc EXCEPT ![th] = "done"]
    /\ UNCHANGED <<table, typename, value, checker, pending>>

NextConc ==
    \/ \E th \in Threads : Enter(th)
    \/ \E th \in Threads : PlainCall(th)
    \/ \E th \in Threads : ListLookup(th)
    \/ \E th \in Threads : LoopStep(th)
    \/ \E th \in Threads : LoopEnd(th)
    \/ \E th \in Threads : Return(th)

SpecConc == Init /\ [][NextConc]_vars

Done(th) == pc[th] = "done"

(***************************************************************************)
(* Properties.                                                             *)
(***************************************************************************)
IsListType(t) == StartsWith(t, ListPrefix)
ElementType(t) == From(t, 9)
\* the name has no is_* attribute of its own
NoPredicate(t) == (<<"i", "s", "_">> \o replace(t, "-", "_")) \notin DOMAIN PredicateTable
\* the element checker's verdict on one value
Passes(t, v) == call(PredicateTable, get_func_by_name(PredicateTable, t), v) = "true"
\* the maximal runs of characters of s that are not separators
RECURSIVE Tokens(_, _)
Tokens(s, seps) ==
    LET a == FirstNotIn(s, seps)
        rest == From(s, a)
        b == FirstIn(rest, seps)
    IN  IF a > Len(s) THEN <<>>
        ELSE <<SubSeq(rest, 1, b - 1)>> \o Tokens(From(rest, b), seps)

\* C1: check(typeName, value) never raises: every call, whatever the type name and
\* the value, ends with a boolean.
C1_NeverRaises ==
    \A th \in Threads : Done(th) => result[th] \in {"true", "false"}

\* C2: for the grammar types accepted as opaque text, and for every type name without
\* a predicate of its own (and without the list-of- prefix, which names a list and not
\* a predicate), check returns true for every value.
C2_UnmodelledAlwaysTrue ==
    \A th \in Threads :
        ( /\ Done(th)
          /\ ~ IsListType(typename[th])
          /\ typename[th] \in UnmodelledTypes \/ NoPredicate(typename[th]) )
        => result[th] = "true"
C2_Witness ==
    \E th \in Threads :
        /\ Done(th) /\ NoPredicate(typename[th]) /\ ~ IsListType(typename[th])
        /\ value[th] = None /\ result[th] = "true"

\* C3: for a string that holds elements separated by white space, by a comma, or by
\* a comma with white space around it, check("list-of-T", value) is true exactly when
\* every element passes the checker of T, so that "1 2 3", "1,2,3" and "1,2, 3" are
\* lists of numbers and "1,a,3" is not.
ListSeparators == StripChars \cup {","}
\* no comma before the first element or after the last, one comma at most between two
WellSeparated(s) ==
    /\ ~ \E i \in 1..Len(s) :
            s[i] = "," /\ \/ AllIn(SubSeq(s, 1, i), ListSeparators)
                          \/ AllIn(From(s, i), ListSeparators)
    /\ ~ \E i \in 1..Len(s) : \E j \in (i + 1)..Len(s) :
            s[i] = "," /\ s[j] = "," /\ AllIn(SubSeq(s, i, j), ListSeparators)
C3_ListOfStringSplit ==
    \A th \in Threads :
        ( /\ Done(th) /\ IsListType(typename[th])
          /\ IsBaseString(value[th]) /\ WellSeparated(value[th].s) )
        => LET elems == Tokens(value[th].s, ListSeparators)
           IN  elems # <<>> =>
                  result[th] =
                     Out(\A i \in 1..Len(elems) :
                            Passes(ElementType(typename[th]), PyStr(elems[i])))

\* C4: the list checker accepts an empty sequence of elements for every element type:
\* the empty string and the empty tuple are lists of T.
C4_EmptyListPasses ==
    \A th \in Threads :
        ( /\ Done(th) /\ IsListType(typename[th])
          /\ value[th] \in {PyStr(<<>>), PyTuple(<<>>)} )
        => result[th] = "true"

\* C5: check("number-optional-number", value) is true exactly when value is a single
\* number, a tuple of two numbers, or a string of one number or of two numbers
\* separated by blanks with at most one comma among them.
IsNumberToken(s) ==
    /\ Len(s) > 0
    /\ \A i \in 1..Len(s) : s[i] \notin {" ", ","}
    /\ float_str_ok(s)
IsSeparator(s) ==
    /\ Len(s) > 0
    /\ AllIn(s, {" ", ","})
    /\ Cardinality({i \in 1..Len(s) : s[i] = ","}) <= 1
OneOrTwoNumbers(s) ==
    \/ float_str_ok(s)
    \/ \E i \in 2..Len(s) : \E j \in i..(Len(s) - 1) :
          /\ IsNumberToken(SubSeq(s, 1, i - 1))
          /\ IsSeparator(SubSeq(s, i, j))
          /\ IsNumberToken(From(s, j + 1))
C5_Accepts(v) ==
    CASE IsIntOrFloat(v) -> TRUE
      [] v.tag = "str" -> OneOrTwoNumbers(strip(v.s))
      [] v.tag = "tuple" ->
            Len(v.items) = 2 /\ Passes(tn_number, v.items[1]) /\ Passes(tn_number, v.items[2])
      [] OTHER -> FALSE
HasNumericPrefix(s) == \E k \in 1..Len(s) : pattern_number(SubSeq(s, 1, k))
IsRectOfFourLengths(s) ==
    /\ StartsWith(s, <<"r", "e", "c", "t", "(">>)
    /\ s[Len(s)] = ")"
    /\ LET args == str_split(SubSeq(s, 6, Len(s) - 1), ",")
       IN  Len(args) = 4 /\ \A i \in 1..4 : Passes(tn_length, PyStr(args[i]))
C7_ShapeExactlyRect ==
    \A th \in Threads :
        (Done(th) /\ typename[th] = tn_shape)
        => /\ result[th] = "true"
                 <=> (IsBaseString(value[th]) /\ IsRectOfFourLengths(strip(value[th].s)))
           /\ IsBaseString(value[th]) => result[th] \in {"true", "false"}

\* C8: check("integer", value) is true exactly when value denotes an integer: a
\* non-integral number is rejected, as a string ("4.2") and as a numeric scalar (4.2).
DenotesInteger(v) ==
    CASE v.tag \in {"int", "bool"} -> TRUE
      [] v.tag = "float" -> v.kind = "fin" /\ v.tenths % 10 = 0
      [] v.tag = "str" -> int_str_ok(v.s)
      [] OTHER -> FALSE
C8_IntegerRejectsNonIntegral ==
    \A th \in Threads :
        (Done(th) /\ typename[th] = tn_integer)
        => result[th] = Out(DenotesInteger(value[th]))

\* C9: for number, length, angle, time, percentage and frequency, a scalar or string
\* that is accepted is still accepted after str(): check(T, v) implies check(T, str(v)).
RoundTripTypes == {tn_number, tn_length, tn_angle, tn_time, tn_percentage, tn_frequency}
C9_StrRoundTrip ==
    \A th \in Threads :
        ( /\ Done(th) /\ typename[th] \in RoundTripTypes
          /\ value[th].tag \in {"int", "bool", "float", "str"}
          /\ result[th] = "true" )
        => check(PredicateTable, typename[th], PyStr(py_str(value[th]))) = "true"

\* C10: no call changes the predicate table, and whatever other calls run in between,
\* a call ends with the outcome the same call has when it runs alone.
C10_PureUnderInterleaving ==
    /\ table = PredicateTable
    /\ \A th \in Threads :
          Done(th) => result[th] = check(PredicateTable, typename[th], value[th])
C10_Witness ==
    \E a \in Threads, b \in Threads :
        /\ a # b
        /\ Done(a) /\ typename[a] = tn_list_of_number /\ result[a] = "false"
        /\ pc[b] = "loop" /\ typename[b] = tn_list_of_string /\ pending[b] # <<>>

=============================================================================
